---- MODULE Spec2Model ----
(***************************************************************************)
(* Model of the emergency-dispatch demos: the step-observable Dijkstra     *)
(* generator (animation.py, visual_final.py, upgrade.py, second script of  *)
(* multiemergency.py) and the exhaustive two-ambulance optimizer           *)
(* (multiemergency.py).                                                    *)
(*                                                                         *)
(* Distances are floats in the scripts; they are modelled as naturals and  *)
(* float("inf") as the number Infinity, larger than any path of the model. *)
(*                                                                         *)
(* Spec runs one search on every graph of a family of small multigraphs    *)
(* (and on the four-node unit cycle), from every origin to every           *)
(* destination, for both readings of the edge weight found in the copies   *)
(* of dijkstra_generator.  OptSpec runs the optimizer, pass by pass, on    *)
(* every distance table of a family of symmetric tables.  PairSpec         *)
(* resumes two generators over one graph in any interleaving.              *)
(* StrangerSpec runs a search whose origin or destination is no node of    *)
(* the graph.  DispatchSpec selects emergencies click by click and         *)
(* dispatches the two ambulances (distance table, optimizer, routes).      *)
(***************************************************************************)
EXTENDS Integers, Sequences, FiniteSets, TLC

----------------------------------------------------------------------------
(* Bounds of the model *)

\* number of nodes of the road graphs the searches run on
NumNodes == 3

\* the longest road segment; segments are 1 or MaxLength long
MaxLength == 3

\* float("inf")
Infinity == 999

----------------------------------------------------------------------------
(* Small helpers over sets and sequences *)

SetMin(S) == CHOOSE x \in S : \A y \in S : x <= y

RECURSIVE Ascending(_)
\* the elements of a set of numbers as an increasing sequence
Ascending(S) ==
    IF S = {} THEN << >>
    ELSE LET m == SetMin(S) IN << m >> \o Ascending(S \ {m})

RECURSIVE Reverse(_)
Reverse(s) == IF s = << >> THEN << >> ELSE Reverse(Tail(s)) \o << Head(s) >>

Range(s) == { s[i] : i \in DOMAIN s }

RECURSIVE Tabulated(_, _)
\* the function f over S with every value worked out
Tabulated(f, S) ==
    IF S = {} THEN << >>
    ELSE LET x == CHOOSE y \in S : TRUE
         IN  (x :> f[x]) @@ Tabulated(f, S \ { x })

----------------------------------------------------------------------------
(* The road graph: a networkx MultiGraph.                                  *)
(* G.nodes is the node set, G.data[{u,v}] the edge-data dict of the pair   *)
(* (a sequence indexed by edge key 0,1,.. of attribute dicts; an attribute *)
(* dict is << l >> when it has a 'length' l and << >> when it has none),   *)
(* G.order the iteration order of the adjacency dicts.                     *)

Nodes == 1 .. NumNodes

Pairs == { p \in SUBSET Nodes : Cardinality(p) = 2 }

EdgeLengths == { 1, MaxLength }

\* one edge with a length, or no edge
SimpleKinds == { << >> } \cup { << << l >> >> : l \in EdgeLengths }

\* parallel edges and edges without a 'length'
MultiKinds ==
    { << << >> >>,
      << << MaxLength >>, << 1 >> >>,
      << << >>, << MaxLength >> >>,
      << << MaxLength >>, << >> >> }

\* the pair of nodes that may carry parallel or unmeasured edges
KindsOf(p) == IF p = { 1, 2 } THEN SimpleKinds \cup MultiKinds ELSE SimpleKinds

EdgeDatas ==
    { f \in [ Pairs -> SimpleKinds \cup MultiKinds ] : \A p \in Pairs : f[p] \in KindsOf(p) }

Orders == { "asc", "desc" }

Graphs == { [ nodes |-> Nodes, data |-> f, order |-> o ] : f \in EdgeDatas, o \in Orders }

\* the scenario graph: the cycle A-B-C-D-A with unit weights, under every
\* numbering of its four nodes
CycleNodes == 1 .. 4

CycleRings == { << 1, 2, 3, 4 >>, << 1, 2, 4, 3 >>, << 1, 3, 2, 4 >> }

RingPairs(r) == { { r[i], r[(i % Len(r)) + 1] } : i \in DOMAIN r }

CycleGraphs ==
    { [ nodes |-> CycleNodes,
        data  |-> [ p \in { q \in SUBSET CycleNodes : Cardinality(q) = 2 } |->
                      IF p \in RingPairs(r) THEN << << 1 >> >> ELSE << >> ],
        order |-> o ] : r \in CycleRings, o \in Orders }

\* G.get_edge_data(u, v, default={})
get_edge_data(g, u, v) == IF u = v THEN << >> ELSE g.data[{ u, v }]

Adjacent(g, u, v) == u /= v /\ g.data[{ u, v }] /= << >>

\* G.neighbors(u), in the iteration order of the graph
neighbors(g, u) ==
    LET asc == Ascending({ v \in g.nodes : Adjacent(g, u, v) })
    IN  IF g.order = "asc" THEN asc ELSE Reverse(asc)

\* the 'length' values present among the parallel edges of a pair
PresentLengths(data) == { data[k][1] : k \in { i \in DOMAIN data : data[i] /= << >> } }

\* data[key].get('length', 1.0) over every key
DefaultedLengths(data) ==
    { IF data[k] = << >> THEN 1 ELSE data[k][1] : k \in DOMAIN data }

\* the weight the generator gives the step u -> v.
\* "animation": animation.py and visual_final.py skip edges without a length;
\* "upgrade": upgrade.py and the second script of multiemergency.py count them as 1.0
EdgeWeight(script, g, u, v) ==
    LET data == get_edge_data(g, u, v)
    IN  IF data = << >> THEN 1
        ELSE IF script = "animation"
             THEN IF PresentLengths(data) = {} THEN 1 ELSE SetMin(PresentLengths(data))
             ELSE SetMin(DefaultedLengths(data))

Scripts == { "animation", "upgrade" }

----------------------------------------------------------------------------
(* dijkstra_generator: the frame of one suspended generator.               *)
(* pc is the yield the frame is suspended at: "start" (created, not yet    *)
(* run), "visit", "relax", "done", "no_path", "end" (returned) or         *)
(* "raised" (left by an exception).                                        *)
(* last is the event of the latest yield, nbrs what is left of the         *)
(* `for v in G.neighbors(u)` iteration.  An event is (ev, payload); the    *)
(* payload is written as a tuple: << u >> for a node, the path for "done", *)
(* << >> for None.                                                         *)

Event(ev, payload) == [ ev |-> ev, payload |-> payload ]

\* the frame after `seen = set()`, before the first pass of the loop;
\* `dist[start] = 0.0` gives dist an entry for start even when start is no node
NewGenerator(g, s) ==
    [ dist |-> [ n \in g.nodes \cup { s } |-> IF n = s THEN 0 ELSE Infinity ],
      prev |-> << >>,
      pq   |-> { << 0, s >> },
      seen |-> {},
      d    |-> 0,
      u    |-> s,
      nbrs |-> << >>,
      pc   |-> "start",
      last |-> Event("none", << >>) ]

\* tuple comparison of the heap entries (d, u)
EntryLE(e, f) == e[1] < f[1] \/ (e[1] = f[1] /\ e[2] <= f[2])

\* a faulty variant: the heap gives its largest entry
heappop_Largest(pq) == CHOOSE e \in pq : \A f \in pq : EntryLE(f, e)

\* heapq.heappop(pq): the smallest entry
heappop(pq) == CHOOSE e \in pq : \A f \in pq : EntryLE(e, f)

\* a faulty variant: `if nd <= dist[v]`
Improves_OrEqual(nd, dv) == nd <= dv

\* `if nd < dist[v]`
Improves(nd, dv) == nd < dv

\* a faulty variant: the predecessor is not recorded
SetPrev_Forgets(prev, v, u) == prev

\* prev[v] = u
SetPrev(prev, v, u) ==
    [ x \in (DOMAIN prev) \cup { v } |-> IF x = v THEN u ELSE prev[x] ]

RECURSIVE WalkBack(_, _)
\* `while cur in prev: path.append(cur); cur = prev[cur]`
WalkBack(prev, cur) ==
    IF cur \in DOMAIN prev THEN << cur >> \o WalkBack(prev, prev[cur]) ELSE << >>

\* a faulty variant: the path is not reversed
ReconstructPath_NoReverse(prev, s, t) == WalkBack(prev, t) \o << s >>

\* the path built when the target is settled
ReconstructPath(prev, s, t) == Reverse(WalkBack(prev, t) \o << s >>)

RECURSIVE PopLoop_NoFinalYield(_)
\* a faulty variant: the generator returns without the final `yield ("no_path", None)`
PopLoop_NoFinalYield(f) ==
    IF f.pq = {}
    THEN [ f EXCEPT !.pc = "end", !.nbrs = << >>, !.last = Event("StopIteration", << >>) ]
    ELSE LET e == CHOOSE x \in f.pq : \A y \in f.pq : EntryLE(x, y)
             rest == [ f EXCEPT !.pq = f.pq \ { e } ]
         IN  IF e[2] \in f.seen
             THEN PopLoop_NoFinalYield(rest)
             ELSE [ rest EXCEPT !.seen = f.seen \cup { e[2] },
                                !.d = e[1],
                                !.u = e[2],
                                !.nbrs = << >>,
                                !.pc = "visit",
                                !.last = Event("visit", << e[2] >>) ]

\* a faulty variant: `if u in seen: continue` is left out
PopLoop_NoSeenCheck(f) ==
    IF f.pq = {}
    THEN [ f EXCEPT !.pc = "no_path", !.nbrs = << >>, !.last = Event("no_path", << >>) ]
    ELSE LET e == CHOOSE x \in f.pq : \A y \in f.pq : EntryLE(x, y)
         IN  [ f EXCEPT !.pq = f.pq \ { e },
                        !.seen = f.seen \cup { e[2] },
                        !.d = e[1],
                        !.u = e[2],
                        !.nbrs = << >>,
                        !.pc = "visit",
                        !.last = Event("visit", << e[2] >>) ]

RECURSIVE PopLoop(_)
\* the head of `while pq`: pop until an unseen node is found (yield visit)
\* or the heap is empty (yield no_path)
PopLoop(f) ==
    IF f.pq = {}
    THEN [ f EXCEPT !.pc = "no_path", !.nbrs = << >>, !.last = Event("no_path", << >>) ]
    ELSE LET e == heappop(f.pq)
             rest == [ f EXCEPT !.pq = f.pq \ { e } ]
         IN  IF e[2] \in f.seen
             THEN PopLoop(rest)
             ELSE [ rest EXCEPT !.seen = f.seen \cup { e[2] },
                                !.d = e[1],
                                !.u = e[2],
                                !.nbrs = << >>,
                                !.pc = "visit",
                                !.last = Event("visit", << e[2] >>) ]

RECURSIVE NeighborLoop(_, _, _)
\* `for v in G.neighbors(u)`: run to the next relaxation (yield relax) or,
\* when the neighbors are used up, back to the head of the while loop
NeighborLoop(script, g, f) ==
    IF f.nbrs = << >>
    THEN PopLoop(f)
    ELSE LET v  == Head(f.nbrs)
             nd == f.d + EdgeWeight(script, g, f.u, v)
         IN  IF Improves(nd, f.dist[v])
             THEN [ f EXCEPT !.dist = [ f.dist EXCEPT ![v] = nd ],
                             !.prev = SetPrev(f.prev, v, f.u),
                             !.pq = f.pq \cup { << nd, v >> },
                             !.nbrs = Tail(f.nbrs),
                             !.pc = "relax",
                             !.last = Event("relax", << v >>) ]
             ELSE NeighborLoop(script, g, [ f EXCEPT !.nbrs = Tail(f.nbrs) ])

\* a faulty variant: the target is expanded like any other node
AtTarget_Never(f, t) == FALSE

\* a faulty variant: the origin is never taken for the target
AtTarget_NotOrigin(f, t) == f.u = t /\ f.u \in DOMAIN f.prev

\* `if u == target` right after the visit was yielded
AtTarget(f, t) == f.u = t

\* next(generator): resume the frame and run it to its next yield or to its
\* end; G.neighbors(u) raises NetworkXError when u is not a node of G
GenNext(script, g, s, t, f) ==
    CASE f.pc = "start" -> PopLoop(f)
      [] f.pc = "visit" ->
            IF AtTarget(f, t)
            THEN [ f EXCEPT !.pc = "done",
                            !.last = Event("done", ReconstructPath(f.prev, s, t)) ]
            ELSE IF f.u \notin g.nodes
            THEN [ f EXCEPT !.pc = "raised", !.last = Event("NetworkXError", << >>) ]
            ELSE NeighborLoop(script, g, [ f EXCEPT !.nbrs = neighbors(g, f.u) ])
      [] f.pc = "relax" -> NeighborLoop(script, g, f)
      [] OTHER -> [ f EXCEPT !.pc = "end", !.last = Event("StopIteration", << >>) ]

----------------------------------------------------------------------------
(* The optimizer of multiemergency.py.  distance_matrix is indexed by the  *)
(* points 0 (the base) and 1..n (the emergencies); a subset and a route    *)
(* order are sequences of indices; None is written << >>.                  *)

\* the most emergencies the optimizer is run on in the model
MaxSites == 3

\* the longest distance between two points
MaxDist == 5

\* the distances from the base to an emergency, and between two emergencies
BaseLegs == { 1, 3, MaxDist }

SiteLegs == { 2, MaxDist }

Legs(p) == IF 0 \in p THEN BaseLegs ELSE SiteLegs

\* the symmetric matrices with a zero diagonal over the points 0..n
Matrices(n) ==
    LET pairs == { p \in SUBSET (0 .. n) : Cardinality(p) = 2 }
    IN  { [ i \in 0 .. n |-> [ j \in 0 .. n |-> IF i = j THEN 0 ELSE f[{ i, j }] ] ] :
            f \in { h \in [ pairs -> BaseLegs \cup SiteLegs ] : \A p \in pairs : h[p] \in Legs(p) } }

RemoveAt(s, i) == SubSeq(s, 1, i - 1) \o SubSeq(s, i + 1, Len(s))

RECURSIVE permutations(_)
RECURSIVE PermutationsFrom(_, _)
\* the permutations that start with s[i], s[i+1], ..
PermutationsFrom(s, i) ==
    IF i > Len(s) THEN << >>
    ELSE LET tails == permutations(RemoveAt(s, i))
         IN  [ k \in DOMAIN tails |-> << s[i] >> \o tails[k] ] \o PermutationsFrom(s, i + 1)

\* itertools.permutations(subset), in the order itertools yields them
permutations(s) == IF s = << >> THEN << << >> >> ELSE PermutationsFrom(s, 1)

RECURSIVE LegsCost_OneWay(_, _, _)
\* a faulty variant: the return leg to the base is left out
LegsCost_OneWay(dm, prev, perm) ==
    IF perm = << >> THEN 0
    ELSE dm[prev][Head(perm)] + LegsCost_OneWay(dm, Head(perm), Tail(perm))

RECURSIVE LegsCost(_, _, _)
\* `for idx in perm: cost += distance_matrix[prev][idx]; prev = idx`, then the
\* return leg `cost += distance_matrix[prev][0]`
LegsCost(dm, prev, perm) ==
    IF perm = << >> THEN dm[prev][0]
    ELSE dm[prev][Head(perm)] + LegsCost(dm, Head(perm), Tail(perm))

RouteCost(dm, perm) == LegsCost(dm, 0, perm)

\* `if cost < best_cost` of find_best_route_order
BetterOrder(cost, best_cost) == cost < best_cost

RECURSIVE BestOrderFrom(_, _, _, _)
\* the loop of find_best_route_order over perms[k..]
BestOrderFrom(dm, perms, k, best) ==
    IF k > Len(perms) THEN best
    ELSE LET cost == RouteCost(dm, perms[k])
         IN  BestOrderFrom(dm, perms, k + 1,
                 IF BetterOrder(cost, best.cost)
                 THEN [ order |-> perms[k], cost |-> cost ]
                 ELSE best)

\* a faulty variant: the subset is visited in the order given, without any search
find_best_route_order_AsGiven(dm, subset) ==
    IF Len(subset) = 0 THEN [ order |-> << >>, cost |-> 0 ]
    ELSE [ order |-> subset, cost |-> RouteCost(dm, subset) ]

find_best_route_order(dm, subset) ==
    IF Len(subset) = 0 THEN [ order |-> << >>, cost |-> 0 ]
    ELSE BestOrderFrom(dm, permutations(subset), 1, [ order |-> << >>, cost |-> Infinity ])

RECURSIVE Pow2(_)
\* 1 << n
Pow2(n) == IF n = 0 THEN 1 ELSE 2 * Pow2(n - 1)

\* (mask & (1 << i)) != 0
BitSet(mask, i) == (mask \div Pow2(i)) % 2 = 1

\* list(range(1, n+1))
emergencies_idx(n) == [ i \in 1 .. n |-> i ]

Subset1(n, mask) == SelectSeq(emergencies_idx(n), LAMBDA e : BitSet(mask, e - 1))

\* a faulty variant: the second ambulance is given every emergency
Subset2_All(n, mask) == emergencies_idx(n)

Subset2(n, mask) ==
    SelectSeq(emergencies_idx(n), LAMBDA e : e \notin Range(Subset1(n, mask)))

\* a faulty variant: `if total_cost <= best_cost`
BetterPartition_OrEqual(total_cost, best_cost) == total_cost <= best_cost

\* `if total_cost < best_cost` of find_best_partition_and_routes
BetterPartition(total_cost, best_cost) == total_cost < best_cost

\* best_cost, best_partition, best_routes before the loop over the masks
NoBest == [ best_cost |-> Infinity, best_partition |-> << >>, best_routes |-> << >> ]

\* a faulty variant: a split that leaves an ambulance idle is skipped
EvalMask_BothBusy(dm, n, best, mask) ==
    LET subset1 == Subset1(n, mask)
        subset2 == Subset2(n, mask)
        r1 == find_best_route_order(dm, subset1)
        r2 == find_best_route_order(dm, subset2)
        total_cost == r1.cost + r2.cost
    IN  IF subset1 /= << >> /\ subset2 /= << >> /\ BetterPartition(total_cost, best.best_cost)
        THEN [ best_cost      |-> total_cost,
               best_partition |-> << subset1, subset2 >>,
               best_routes    |-> << r1.order, r2.order >> ]
        ELSE best

\* one pass of `for mask in range(1 << n)`
EvalMask(dm, n, best, mask) ==
    LET subset1 == Subset1(n, mask)
        subset2 == Subset2(n, mask)
        r1 == find_best_route_order(dm, subset1)
        r2 == find_best_route_order(dm, subset2)
        total_cost == r1.cost + r2.cost
    IN  IF BetterPartition(total_cost, best.best_cost)
        THEN [ best_cost      |-> total_cost,
               best_partition |-> << subset1, subset2 >>,
               best_routes    |-> << r1.order, r2.order >> ]
        ELSE best

RECURSIVE BestFrom(_, _, _, _)
\* the passes mask, mask+1, .., (1 << n) - 1
BestFrom(dm, n, best, mask) ==
    IF mask >= Pow2(n) THEN best
    ELSE BestFrom(dm, n, EvalMask(dm, n, best, mask), mask + 1)

find_best_partition_and_routes(dm, n) == BestFrom(dm, n, NoBest, 0)

----------------------------------------------------------------------------
(* The dispatch of multiemergency.py: the distance table between the base  *)
(* and the selected emergencies, and the node path of each ambulance.      *)
(* nx.shortest_path is a library call: it returns a path of least weight,  *)
(* the weight of a pair of nodes being the least `length` (1 when absent)  *)
(* of its parallel edges.  Which of several least paths it returns for a   *)
(* source and a target is fixed by the library and the graph, not by the   *)
(* scripts: nx_paths holds one least path for every ordered pair of nodes, *)
(* and every such table is a possible library.                             *)

\* the base station
base_node == 1

\* the most emergencies on_click accepts
MAX_EMERGENCIES == 6

\* the roads of the graphs that are dispatched on: parallel or unmeasured
\* edges between nodes 1 and 2, a road of 1 or 2 between nodes 1 and 3,
\* unit roads elsewhere
RoadKinds(p) ==
    IF p = { 1, 2 }
    THEN { << >>, << << 1 >> >>, << << >> >>, << << MaxLength >>, << 1 >> >> }
    ELSE IF p = { 1, 3 }
    THEN { << >>, << << 1 >> >>, << << 2 >> >> }
    ELSE { << >>, << << 1 >> >> }

RoadGraphs ==
    { [ nodes |-> Nodes, data |-> f, order |-> "asc" ] :
        f \in { h \in [ Pairs -> SimpleKinds \cup MultiKinds \cup { << << 2 >> >> } ] :
                   \A p \in Pairs : h[p] \in RoadKinds(p) } }

\* the square 1-2-3-4-1 of unit roads, with a longer parallel road of key 0
\* between nodes 1 and 2
SquareRoads ==
    { [ nodes |-> CycleNodes,
        data  |-> [ p \in { q \in SUBSET CycleNodes : Cardinality(q) = 2 } |->
                      IF p = { 1, 2 } THEN << << MaxLength >>, << 1 >> >>
                      ELSE IF p \in RingPairs(<< 1, 2, 3, 4 >>) THEN << << 1 >> >>
                      ELSE << >> ],
        order |-> "asc" ] }

RECURSIVE PathsVia(_, _, _)
\* the simple paths that go on from the last node of path to t
PathsVia(g, path, t) ==
    LET u == path[Len(path)]
    IN  IF u = t THEN { path }
        ELSE UNION { PathsVia(g, Append(path, v), t) :
                       v \in { x \in g.nodes \ Range(path) : Adjacent(g, u, x) } }

RECURSIVE nx_weight(_, _)
\* the weight networkx gives a path for weight='length'
nx_weight(g, path) ==
    IF Len(path) < 2 THEN 0
    ELSE SetMin(DefaultedLengths(get_edge_data(g, path[1], path[2])))
             + nx_weight(g, Tail(path))

\* the paths nx.shortest_path(G, source, target, weight='length') may return;
\* none when it raises NetworkXNoPath
shortest_path(g, source, t) ==
    LET paths == PathsVia(g, << source >>, t)
    IN  { q \in paths : \A r \in paths : nx_weight(g, q) <= nx_weight(g, r) }

\* what the try/except around the library call may give for a source and a
\* target: one of the least paths, [] when the call raises NetworkXNoPath
Returns(g, source, t) ==
    IF shortest_path(g, source, t) = {} THEN { << >> } ELSE shortest_path(g, source, t)

RECURSIVE Libraries(_, _)
\* the tables that give every ordered pair of nodes one result of the call
Libraries(g, pairs) ==
    IF pairs = {} THEN { << >> }
    ELSE LET c == CHOOSE x \in pairs : TRUE
         IN  { (c :> q) @@ t : t \in Libraries(g, pairs \ { c }),
                               q \in Returns(g, c[1], c[2]) }

\* the ordered pairs of different nodes of a graph
Trips(g) == { c \in g.nodes \X g.nodes : c[1] /= c[2] }

\* dijkstra_shortest_path(G, source, target) under the library table nx
dijkstra_shortest_path(nx, source, t) ==
    IF source = t THEN << source >> ELSE nx[<< source, t >>]

\* points = [base_node] + emergency_nodes, indexed from 0
Points(sites) == [ i \in 0 .. Len(sites) |-> IF i = 0 THEN base_node ELSE sites[i] ]

\* `edge_data[0].get('length', 1.0)`: the length of the edge of key 0
Key0Length(g, u, v) ==
    LET edge_data == get_edge_data(g, u, v)
    IN  IF edge_data[1] = << >> THEN 1 ELSE edge_data[1][1]

RECURSIVE PathLength(_, _)
\* `for k in range(len(path)-1): dist += ...`
PathLength(g, path) ==
    IF Len(path) < 2 THEN 0
    ELSE Key0Length(g, path[1], path[2]) + PathLength(g, Tail(path))

\* distance_matrix and path_matrix as compute_distance_matrix() leaves them
compute_distance_matrix(g, nx, sites) ==
    LET n == Len(sites)
        points == Points(sites)
        paths == Tabulated([ i \in 0 .. n |-> Tabulated([ j \in 0 .. n |->
                     IF i = j THEN << points[i] >>
                     ELSE dijkstra_shortest_path(nx, points[i], points[j]) ], 0 .. n) ], 0 .. n)
    IN  [ distance_matrix |->
              Tabulated([ i \in 0 .. n |-> Tabulated([ j \in 0 .. n |->
                  IF i = j THEN 0 ELSE PathLength(g, paths[i][j]) ], 0 .. n) ], 0 .. n),
          path_matrix |-> paths ]

\* a run of the loop of build_full_path: the route so far and the segments
\* dijkstra_shortest_path has returned
NewRoute == [ full_path |-> << base_node >>, segments |-> << >> ]

\* a faulty variant: the whole segment is appended, its first node included
Extend_WholeSegment(full_path, path_segment) ==
    IF Len(path_segment) > 1 THEN full_path \o path_segment ELSE full_path

\* `if len(path_segment) > 1: full_path.extend(path_segment[1:])`
Extend(full_path, path_segment) ==
    IF Len(path_segment) > 1 THEN full_path \o Tail(path_segment) ELSE full_path

RECURSIVE RouteRun_FromBase(_, _, _, _)
\* a faulty variant: every segment is computed from the base
RouteRun_FromBase(nx, points, run, route_order) ==
    IF route_order = << >> THEN run
    ELSE LET path_segment == dijkstra_shortest_path(nx, base_node, points[Head(route_order)])
         IN  RouteRun_FromBase(nx, points,
                      [ full_path |-> Extend(run.full_path, path_segment),
                        segments  |-> Append(run.segments, path_segment) ],
                      Tail(route_order))

RECURSIVE RouteRun(_, _, _, _)
\* `for idx in route_order`: the run that goes on from run
RouteRun(nx, points, run, route_order) ==
    IF route_order = << >> THEN run
    ELSE LET last_node == run.full_path[Len(run.full_path)]
             path_segment == dijkstra_shortest_path(nx, last_node, points[Head(route_order)])
         IN  RouteRun(nx, points,
                      [ full_path |-> Extend(run.full_path, path_segment),
                        segments  |-> Append(run.segments, path_segment) ],
                      Tail(route_order))

\* a faulty variant: an empty order gives an empty route
build_full_path_run_NoBase(nx, sites, route_order) ==
    IF route_order = << >> THEN [ full_path |-> << >>, segments |-> << >> ]
    ELSE RouteRun(nx, Points(sites), NewRoute, route_order)

\* the run of build_full_path(route_order)
build_full_path_run(nx, sites, route_order) ==
    IF route_order = << >> THEN NewRoute
    ELSE RouteRun(nx, Points(sites), NewRoute, route_order)

\* the route build_full_path(route_order) returns
build_full_path(nx, sites, route_order) ==
    build_full_path_run(nx, sites, route_order).full_path

\* `build_full_path(best_routes[k]) if best_routes[k] else [base_node]`
RouteOf(nx, sites, route_order) ==
    IF route_order /= << >> THEN build_full_path(nx, sites, route_order)
    ELSE << base_node >>

\* the indices i with points[i] = node
Places(points, node) == { i \in DOMAIN points : points[i] = node }

\* `([base_node] + emergency_nodes).index(node)`; the caller has made sure
\* that the node is among the points
index(points, node) == SetMin(Places(points, node))

RECURSIVE PositionsFrom(_, _, _, _, _)
\* the passes i, i+1, .. of `for i in range(len(route_path) - 1)` and the
\* position of the last node; the position of a node is written as the node.
\* .index raises ValueError for a node that is neither base nor emergency
PositionsFrom(points, pm, route_path, i, pos_list) ==
    IF i > Len(route_path) - 1
    THEN [ raised |-> "none", pos_list |-> Append(pos_list, route_path[Len(route_path)]) ]
    ELSE LET start_node == route_path[i]
             end_node == route_path[i + 1]
         IN  IF Places(points, start_node) = {} \/ Places(points, end_node) = {}
             THEN [ raised |-> "ValueError", pos_list |-> pos_list ]
             ELSE LET intermediate_nodes ==
                          pm[index(points, start_node)][index(points, end_node)]
                  IN  PositionsFrom(points, pm, route_path, i + 1,
                          pos_list \o SubSeq(intermediate_nodes, 1,
                                             Len(intermediate_nodes) - 1))

RECURSIVE PositionsOfRoutes(_, _, _, _)
\* `for route_path in route_paths`: route_positions grows by one list for
\* every route, until a route raises
PositionsOfRoutes(points, pm, routes, done) ==
    IF routes = << >> THEN [ raised |-> "none", route_positions |-> done ]
    ELSE LET one == PositionsFrom(points, pm, Head(routes), 1, << >>)
         IN  IF one.raised # "none"
             THEN [ raised |-> one.raised, route_positions |-> done ]
             ELSE PositionsOfRoutes(points, pm, Tail(routes), Append(done, one.pos_list))

RECURSIVE MoveFrom(_, _, _)
\* the passes i, i+1 of `for i in range(2)` of anim_step of multiemergency.py;
\* a list index out of range raises IndexError and ends the tick
MoveFrom(positions, indices, i) ==
    IF i > 2 THEN [ raised |-> "none", route_step_indices |-> indices ]
    ELSE IF i > Len(positions)
    THEN [ raised |-> "IndexError", route_step_indices |-> indices ]
    ELSE IF Len(positions[i]) = 0 THEN MoveFrom(positions, indices, i + 1)
    ELSE LET idx == indices[i]
         IN  IF idx >= Len(positions[i])
             THEN [ raised |-> "IndexError", route_step_indices |-> indices ]
             ELSE MoveFrom(positions,
                           IF idx < Len(positions[i]) - 1
                           THEN [ indices EXCEPT ![i] = idx + 1 ] ELSE indices,
                           i + 1)

----------------------------------------------------------------------------
(* State *)

VARIABLES
    G, start, target, script,    \* the arguments of one dijkstra_generator call
    gen,                         \* its frame
    events,                      \* the events it has yielded so far
    settled,                     \* dist and prev of each node when it was visited
    start2, target2,             \* the arguments of a second call on the same G
    gen2,                        \* the frame of the second generator
    events2,                     \* the events the second generator has yielded
    emergency_nodes,             \* multiemergency.py: the selected emergencies
    distance_matrix,             \* multiemergency.py: the distance table
    best,                        \* best_cost, best_partition, best_routes
    mask,                        \* the pass the optimizer's loop is at
    path_matrix,                 \* multiemergency.py: the paths between the points
    route_paths,                 \* multiemergency.py: the node path of each ambulance
    last_call,                   \* the handler that ran last: on_click or dispatch
    nx_paths,                    \* the path nx.shortest_path returns for each pair
    node_color_map,              \* the colour of each node's dot
    dijkstra_gen,                \* the frame of the generator being animated, or None
    current_target_node,         \* the node of the last accepted click
    path_nodes,                  \* animation.py: the path the ambulance follows
    ambulance_index,             \* animation.py: its position on path_nodes
    ambulance_moving,            \* animation.py: whether it is on its way
    ambulance_annot,             \* animation.py: the node its icon is drawn at, or 0
    frames_since_path_found,     \* animation.py: ticks since its last move
    visited_order,               \* upgrade.py: the nodes of the applied visit events
    applied,                     \* the events anim_step has applied since the last start
    pulled,                      \* the number of next() calls made on dijkstra_gen
    last_click,                  \* the node nearest to the last click on the animation
    abandoned,                   \* the events applied of the search the last click replaced
    route_positions,             \* multiemergency.py: the positions of each ambulance
    route_step_indices,          \* multiemergency.py: where each ambulance is on them
    raised                       \* the exception that ended the last dispatch or tick

search_vars == << G, start, target, script, gen, events, settled >>

pair_vars == << start2, target2, gen2, events2 >>

dispatch_vars == << emergency_nodes, distance_matrix, best, mask >>

route_vars == << path_matrix, route_paths, last_call, nx_paths >>

anim_vars == << dijkstra_gen, current_target_node, path_nodes, ambulance_index,
               ambulance_moving, ambulance_annot, frames_since_path_found, visited_order,
               applied, pulled, last_click, abandoned >>

display_vars == << node_color_map, anim_vars >>

tick_vars == << route_positions, route_step_indices, raised >>

vars == << search_vars, pair_vars, dispatch_vars, route_vars, display_vars, tick_vars >>

NoMatrix == [ i \in { 0 } |-> [ j \in { 0 } |-> 0 ] ]

\* path_matrix = None
NoPaths == << >>

\* route_paths = [[], []]
NoRoutes == << << >>, << >> >>

\* an exception leaving the generator is not an event
\* dijkstra_gen = None
None == [ pc |-> "None" ]

\* node_color_map as the scripts build it at import
StartColors(nodes) ==
    Tabulated([ n \in nodes |-> IF n = base_node THEN "BASE_COLOR"
                                ELSE "DEFAULT_NODE_COLOR" ], nodes)

\* the globals of the animation before the first click
IdleAnimation ==
    /\ dijkstra_gen = None
    /\ current_target_node = 0
    /\ path_nodes = << >>
    /\ ambulance_index = 0
    /\ ambulance_moving = FALSE
    /\ ambulance_annot = 0
    /\ frames_since_path_found = 0
    /\ visited_order = << >>
    /\ applied = << >>
    /\ pulled = 0
    /\ last_click = 0
    /\ abandoned = << >>

\* no window is open
IdleDisplay == node_color_map = << >> /\ IdleAnimation

\* no ambulance has a route
IdleTicks ==
    /\ route_positions = << << >>, << >> >>
    /\ route_step_indices = << 0, 0 >>
    /\ raised = "none"

Outcomes == { "StopIteration", "NetworkXError" }

\* the frame can be resumed
Live(f) == f.pc \notin { "end", "raised" }

----------------------------------------------------------------------------
(* One search, pulled event by event by its consumer *)

Init ==
    /\ G \in Graphs \cup CycleGraphs
    /\ start \in G.nodes
    /\ target \in G.nodes
    /\ script \in Scripts
    /\ gen = NewGenerator(G, start)
    /\ events = << >>
    /\ settled = << >>
    /\ start2 = start
    /\ target2 = target
    /\ gen2 = NewGenerator(G, start2)
    /\ events2 = << >>
    /\ emergency_nodes = << >>
    /\ distance_matrix = NoMatrix
    /\ best = NoBest
    /\ mask = 0
    /\ path_matrix = NoPaths
    /\ route_paths = NoRoutes
    /\ last_call = "none"
    /\ nx_paths = << >>
    /\ IdleDisplay
    /\ IdleTicks

\* what dist and prev hold for the node just visited, added to the record;
\* the entry of prev is << >> when the node has none
Settle(rec, f) ==
    [ x \in (DOMAIN rec) \cup { f.u } |->
        IF x = f.u
        THEN [ dist |-> f.dist[x],
               prev |-> IF x \in DOMAIN f.prev THEN << f.prev[x] >> ELSE << >> ]
        ELSE rec[x] ]

\* a faulty variant: a generator that has come to its end is started again
Pull_Restarts(ev) ==
    /\ Live(gen)
    /\ LET nf == GenNext(script, G, start, target, gen)
       IN  /\ nf.last.ev = ev
           /\ gen' = IF ev \in Outcomes THEN NewGenerator(G, start) ELSE nf
           /\ events' = IF ev \in Outcomes THEN << >> ELSE Append(events, nf.last)
           /\ settled' = IF ev \in Outcomes THEN << >>
                         ELSE IF ev = "visit" THEN Settle(settled, nf) ELSE settled
    /\ UNCHANGED << G, start, target, script >>
    /\ UNCHANGED << pair_vars, dispatch_vars, route_vars, display_vars, tick_vars >>

\* a faulty variant: the road of a relaxation is taken out of the graph
Pull_DropsRoad(ev) ==
    /\ Live(gen)
    /\ gen' = GenNext(script, G, start, target, gen)
    /\ gen'.last.ev = ev
    /\ events' = IF ev \in Outcomes THEN events ELSE Append(events, gen'.last)
    /\ settled' = IF ev = "visit" THEN Settle(settled, gen') ELSE settled
    /\ G' = IF ev = "relax"
            THEN [ G EXCEPT !.data[{ gen'.u, gen'.last.payload[1] }] = << >> ]
            ELSE G
    /\ UNCHANGED << start, target, script >>
    /\ UNCHANGED << pair_vars, dispatch_vars, route_vars, display_vars, tick_vars >>

\* the consumer calls next() and the generator yields event ev
Pull(ev) ==
    /\ Live(gen)
    /\ gen' = GenNext(script, G, start, target, gen)
    /\ gen'.last.ev = ev
    /\ events' = IF ev \in Outcomes THEN events ELSE Append(events, gen'.last)
    /\ settled' = IF ev = "visit" THEN Settle(settled, gen') ELSE settled
    /\ UNCHANGED << G, start, target, script >>
    /\ UNCHANGED << pair_vars, dispatch_vars, route_vars, display_vars, tick_vars >>

Visit == Pull("visit")

Relax == Pull("relax")

Done == Pull("done")

NoPath == Pull("no_path")

Stop == Pull("StopIteration")

Next == Visit \/ Relax \/ Done \/ NoPath \/ Stop

Spec == Init /\ [][Next]_vars

----------------------------------------------------------------------------
(* The optimizer run on a distance table, one pass of its loop at a time *)

IdleSearch ==
    /\ G \in { g \in Graphs : g.order = "asc" /\ \A p \in Pairs : g.data[p] = << >> }
    /\ start = 1
    /\ target = 1
    /\ script = "animation"
    /\ gen = NewGenerator(G, start)
    /\ events = << >>
    /\ settled = << >>
    /\ start2 = start
    /\ target2 = target
    /\ gen2 = NewGenerator(G, start2)
    /\ events2 = << >>

OptInit ==
    /\ IdleSearch
    /\ \E n \in 0 .. MaxSites :
          /\ emergency_nodes = [ i \in 1 .. n |-> i + 1 ]
          /\ distance_matrix \in Matrices(n)
    /\ best = NoBest
    /\ mask = 0
    /\ path_matrix = NoPaths
    /\ route_paths = NoRoutes
    /\ last_call = "none"
    /\ nx_paths = << >>
    /\ IdleDisplay
    /\ IdleTicks

\* one pass of `for mask in range(1 << n)`
TryMask ==
    /\ mask < Pow2(Len(emergency_nodes))
    /\ best' = EvalMask(distance_matrix, Len(emergency_nodes), best, mask)
    /\ mask' = mask + 1
    /\ UNCHANGED << emergency_nodes, distance_matrix >>
    /\ UNCHANGED << search_vars, pair_vars, route_vars, display_vars, tick_vars >>

OptNext == TryMask

OptSpec == OptInit /\ [][OptNext]_vars

----------------------------------------------------------------------------
(* Two generators over the same graph, each resumed by its own consumer in *)
(* any interleaving: the second call is the same call as the first, or the *)
(* call in the opposite direction.                                         *)

\* the graphs the two generators share: parallel and unmeasured edges between
\* nodes 1 and 2, unit roads elsewhere
PairGraphs ==
    { g \in Graphs :
        /\ g.order = "asc"
        /\ \A p \in Pairs : p /= { 1, 2 } => g.data[p] \in { << >>, << << 1 >> >> } }

\* no emergency selected, nothing dispatched
IdleDispatch ==
    /\ emergency_nodes = << >>
    /\ distance_matrix = NoMatrix
    /\ best = NoBest
    /\ mask = 0
    /\ path_matrix = NoPaths
    /\ route_paths = NoRoutes
    /\ last_call = "none"
    /\ nx_paths = << >>
    /\ IdleDisplay
    /\ IdleTicks

PairInit ==
    /\ G \in PairGraphs
    /\ start \in G.nodes
    /\ target \in G.nodes
    /\ script = "upgrade"
    /\ gen = NewGenerator(G, start)
    /\ events = << >>
    /\ settled = << >>
    /\ \E same \in BOOLEAN :
          /\ start2 = IF same THEN start ELSE target
          /\ target2 = IF same THEN target ELSE start
    /\ gen2 = NewGenerator(G, start2)
    /\ events2 = << >>
    /\ IdleDispatch

\* a faulty variant: the second generator keeps its settled set in the set
\* of the first
Pull2_SharedSeen(ev) ==
    /\ Live(gen2)
    /\ gen2' = GenNext(script, G, start2, target2,
                       [ gen2 EXCEPT !.seen = gen2.seen \cup gen.seen ])
    /\ gen2'.last.ev = ev
    /\ events2' = IF ev \in Outcomes THEN events2 ELSE Append(events2, gen2'.last)
    /\ UNCHANGED << start2, target2 >>
    /\ UNCHANGED << search_vars, dispatch_vars, route_vars, display_vars, tick_vars >>

\* the consumer of the second generator calls next() and it yields event ev
Pull2(ev) ==
    /\ Live(gen2)
    /\ gen2' = GenNext(script, G, start2, target2, gen2)
    /\ gen2'.last.ev = ev
    /\ events2' = IF ev \in Outcomes THEN events2 ELSE Append(events2, gen2'.last)
    /\ UNCHANGED << start2, target2 >>
    /\ UNCHANGED << search_vars, dispatch_vars, route_vars, display_vars, tick_vars >>

EventKinds == { "visit", "relax", "done", "no_path" } \cup Outcomes

PairNext == \E ev \in EventKinds : Pull(ev) \/ Pull2(ev)

PairSpec == PairInit /\ [][PairNext]_vars

----------------------------------------------------------------------------
(* A search called with an origin or a destination that is no node of G *)

\* a node id that no graph of the model has
Stranger == NumNodes + 1

StrangerInit ==
    /\ G \in PairGraphs
    /\ start \in G.nodes \cup { Stranger }
    /\ target \in G.nodes \cup { Stranger }
    /\ Stranger \in { start, target }
    /\ script \in Scripts
    /\ gen = NewGenerator(G, start)
    /\ events = << >>
    /\ settled = << >>
    /\ start2 = start
    /\ target2 = target
    /\ gen2 = NewGenerator(G, start2)
    /\ events2 = << >>
    /\ IdleDispatch

StrangerNext == \E ev \in EventKinds : Pull(ev)

StrangerSpec == StrangerInit /\ [][StrangerNext]_vars

----------------------------------------------------------------------------
(* One search whose consumer keeps pulling events until the generator ends, *)
(* on graphs that also have roads of length zero                           *)

\* the pairs of a ring through all the nodes: 1-2, 2-3, .., and back to 1
RingOfNodes == { { n, (n % NumNodes) + 1 } : n \in Nodes }

\* graphs whose roads lie on the ring and are 0 or 1 long
ZeroGraphs ==
    { [ nodes |-> Nodes,
        data  |-> [ p \in Pairs |-> IF p \in RingOfNodes THEN f[p] ELSE << >> ],
        order |-> o ] :
        f \in [ RingOfNodes -> { << >>, << << 0 >> >>, << << 1 >> >> } ], o \in Orders }

FairInit ==
    /\ G \in ZeroGraphs
    /\ start = 1
    /\ target \in G.nodes
    /\ script \in Scripts
    /\ gen = NewGenerator(G, start)
    /\ events = << >>
    /\ settled = << >>
    /\ start2 = start
    /\ target2 = target
    /\ gen2 = NewGenerator(G, start2)
    /\ events2 = << >>
    /\ IdleDispatch

FairNext == \E ev \in EventKinds : Pull(ev)

\* the consumer goes on calling next() as long as the generator is not finished
FairSpec == FairInit /\ [][FairNext]_vars /\ WF_vars(FairNext)

----------------------------------------------------------------------------
(* The dispatcher: emergencies are selected by clicks, then dispatched *)

DispatchInit ==
    /\ G \in RoadGraphs \cup SquareRoads
    /\ start = base_node
    /\ target = base_node
    /\ script = "upgrade"
    /\ gen = NewGenerator(G, start)
    /\ events = << >>
    /\ settled = << >>
    /\ start2 = start
    /\ target2 = target
    /\ gen2 = NewGenerator(G, start2)
    /\ events2 = << >>
    /\ emergency_nodes = << >>
    /\ distance_matrix = NoMatrix
    /\ best = NoBest
    /\ mask = 0
    /\ path_matrix = NoPaths
    /\ route_paths = NoRoutes
    /\ last_call = "none"
    /\ nx_paths \in Libraries(G, Trips(G))
    /\ node_color_map = StartColors(G.nodes)
    /\ IdleTicks
    /\ IdleAnimation

\* on_click without its limit on the number of emergencies
Rejected_NoLimit(nearest) ==
    \/ nearest = base_node
    \/ nearest \in Range(emergency_nodes)

\* the checks of on_click that turn a click down
Rejected(nearest) ==
    \/ nearest = base_node
    \/ nearest \in Range(emergency_nodes)
    \/ Len(emergency_nodes) >= MAX_EMERGENCIES

\* on_click: the click is nearest to node nearest
OnClick(nearest) ==
    /\ emergency_nodes' = IF Rejected(nearest) THEN emergency_nodes
                          ELSE Append(emergency_nodes, nearest)
    /\ node_color_map' = IF Rejected(nearest) THEN node_color_map
                         ELSE [ node_color_map EXCEPT ![nearest] = "TARGET_COLOR" ]
    /\ last_call' = "on_click"
    /\ UNCHANGED << distance_matrix, best, mask, path_matrix, route_paths, nx_paths >>
    /\ UNCHANGED << search_vars, pair_vars, anim_vars, tick_vars >>

\* dispatch: returns at once when no emergency is selected; an exception
\* leaves the globals as they are when it is raised
Dispatch ==
    /\ last_call' = "dispatch"
    /\ IF Len(emergency_nodes) = 0
       THEN /\ raised' = "none"
            /\ UNCHANGED << distance_matrix, best, mask, path_matrix, route_paths,
                            route_positions, route_step_indices >>
       ELSE LET n == Len(emergency_nodes)
                m == compute_distance_matrix(G, nx_paths, emergency_nodes)
                found == find_best_partition_and_routes(m.distance_matrix, n)
                routes == << RouteOf(nx_paths, emergency_nodes, found.best_routes[1]),
                             RouteOf(nx_paths, emergency_nodes, found.best_routes[2]) >>
                placed == PositionsOfRoutes(Points(emergency_nodes), m.path_matrix,
                                            routes, << >>)
            IN  /\ distance_matrix' = m.distance_matrix
                /\ path_matrix' = m.path_matrix
                /\ best' = found
                /\ mask' = Pow2(n)
                /\ route_paths' = routes
                /\ route_positions' = placed.route_positions
                /\ route_step_indices' = IF placed.raised = "none" THEN << 0, 0 >>
                                         ELSE route_step_indices
                /\ raised' = placed.raised
    /\ UNCHANGED << emergency_nodes, nx_paths >>
    /\ UNCHANGED << search_vars, pair_vars, display_vars >>

\* one tick of FuncAnimation in multiemergency.py
Tick ==
    /\ LET moved == MoveFrom(route_positions, route_step_indices, 1)
       IN  /\ route_step_indices' = moved.route_step_indices
           /\ raised' = moved.raised
    /\ last_call' = "anim_step"
    /\ UNCHANGED << path_matrix, route_paths, nx_paths, route_positions >>
    /\ UNCHANGED << search_vars, pair_vars, dispatch_vars, display_vars >>

DispatchNext == (\E nearest \in G.nodes : OnClick(nearest)) \/ Dispatch \/ Tick

DispatchSpec == DispatchInit /\ [][DispatchNext]_vars

(* Clicks on a town with more intersections than the dispatcher accepts *)

TownNodes == 1 .. (MAX_EMERGENCIES + 2)

\* a ring of unit roads through every node of the town
Town ==
    [ nodes |-> TownNodes,
      data  |-> [ p \in { q \in SUBSET TownNodes : Cardinality(q) = 2 } |->
                    IF \E n \in TownNodes : p = { n, (n % (MAX_EMERGENCIES + 2)) + 1 }
                    THEN << << 1 >> >> ELSE << >> ],
      order |-> "asc" ]

ClickInit ==
    /\ G = Town
    /\ start = base_node
    /\ target = base_node
    /\ script = "upgrade"
    /\ gen = NewGenerator(G, start)
    /\ events = << >>
    /\ settled = << >>
    /\ start2 = start
    /\ target2 = target
    /\ gen2 = NewGenerator(G, start2)
    /\ events2 = << >>
    /\ emergency_nodes = << >>
    /\ distance_matrix = NoMatrix
    /\ best = NoBest
    /\ mask = 0
    /\ path_matrix = NoPaths
    /\ route_paths = NoRoutes
    /\ last_call = "none"
    /\ nx_paths = NoPaths
    /\ node_color_map = StartColors(G.nodes)
    /\ IdleTicks
    /\ IdleAnimation

ClickNext == \E nearest \in G.nodes : OnClick(nearest)

ClickSpec == ClickInit /\ [][ClickNext]_vars

----------------------------------------------------------------------------
(* Reference definitions the claims are stated against *)

RECURSIVE ReachableFrom(_, _)
\* the nodes connected to a node of S
ReachableFrom(g, S) ==
    LET T == S \cup { v \in g.nodes : \E u \in S : Adjacent(g, u, v) }
    IN  IF T = S THEN S ELSE ReachableFrom(g, T)

Reachable(g, s, t) == t \in ReachableFrom(g, { s })

RECURSIVE ShortestVia(_, _, _, _, _)
\* the least weight of a path from u to t that avoids the nodes already on
\* the path, Infinity when there is none
ShortestVia(sc, g, u, t, onPath) ==
    IF u = t THEN 0
    ELSE SetMin({ Infinity } \cup
                { LET rest == ShortestVia(sc, g, v, t, onPath \cup { v })
                  IN  IF rest >= Infinity THEN Infinity
                      ELSE EdgeWeight(sc, g, u, v) + rest :
                  v \in { x \in g.nodes \ onPath : Adjacent(g, u, x) } })

\* the shortest distance from s to t: the least weight of a simple path
ShortestDist(sc, g, s, t) == ShortestVia(sc, g, s, t, { s })

RECURSIVE PathWeight(_, _, _)
\* the sum of the weights of the consecutive pairs of a path
PathWeight(sc, g, path) ==
    IF Len(path) < 2 THEN 0
    ELSE EdgeWeight(sc, g, path[1], path[2]) + PathWeight(sc, g, Tail(path))

EventsOf(ev) == { i \in DOMAIN events : events[i].ev = ev }

\* the nodes of the "visit" events, in the order of the events
VisitedOrder == [ k \in 1 .. Cardinality(EventsOf("visit")) |->
                    events[CHOOSE i \in EventsOf("visit") :
                             Cardinality({ j \in EventsOf("visit") : j <= i }) = k].payload[1] ]

----------------------------------------------------------------------------
(* Claims about the search *)

\* C1: when the destination is reachable the search yields a done event, and
\* never no_path; the path of the done event starts at the origin, ends at
\* the destination, steps only along edges, and its weight is dist[destination]
C1_FoundPath ==
    /\ gen.pc = "done" =>
          LET path == gen.last.payload
          IN  /\ Len(path) >= 1
              /\ path[1] = start
              /\ path[Len(path)] = target
              /\ \A i \in 1 .. Len(path) - 1 : Adjacent(G, path[i], path[i + 1])
              /\ PathWeight(script, G, path) = settled[target].dist
              /\ events[Len(events)] = gen.last
              /\ events[Len(events) - 1] = Event("visit", << target >>)
    /\ Reachable(G, start, target) =>
          /\ EventsOf("no_path") = {}
          /\ gen.pc = "end" => events[Len(events)].ev = "done"

\* a path of two steps found although a longer direct road exists
C1_Witness ==
    /\ gen.pc = "done"
    /\ Len(gen.last.payload) = 3
    /\ Adjacent(G, start, target)
    /\ gen.dist[target] < EdgeWeight(script, G, start, target)

\* C2: every visited node carries, when it is visited, its true shortest
\* distance from the origin, and no later step changes its dist or its prev
C2_SettledFinal ==
    /\ DOMAIN settled = gen.seen
    /\ \A u \in DOMAIN settled :
          /\ gen.dist[u] = settled[u].dist
          /\ (u \in DOMAIN gen.prev) <=> (settled[u].prev /= << >>)
          /\ u \in DOMAIN gen.prev => gen.prev[u] = settled[u].prev[1]
    /\ gen.pc = "visit" =>
          settled[gen.u].dist = ShortestDist(script, G, start, gen.u)

\* a node visited at a distance shorter than its first tentative distance,
\* and the search has gone on after the visit
C2_Witness ==
    \E u \in gen.seen :
        /\ Adjacent(G, start, u)
        /\ u \in DOMAIN gen.prev
        /\ gen.dist[u] < EdgeWeight(script, G, start, u)
        /\ gen.pc \in { "relax", "done", "end" }

\* C3: when the destination is not reachable no done event is yielded, and
\* the sequence ends with its only no_path event
C3_Exhausted ==
    ~ Reachable(G, start, target) =>
        /\ EventsOf("done") = {}
        /\ EventsOf("no_path") \subseteq { Len(events) }
        /\ gen.pc \in { "no_path", "end" } => EventsOf("no_path") = { Len(events) }
        /\ gen.pc = "done" => FALSE

C3_Witness ==
    /\ ~ Reachable(G, start, target)
    /\ gen.pc = "end"
    /\ Len(events) > 3

\* the scenario: the unit cycle, from a node to the opposite node
CycleScenario ==
    /\ G \in CycleGraphs
    /\ target /= start
    /\ ~ Adjacent(G, start, target)

\* C4 as stated: the path is A, one neighbor of A, C, and three visits
\* precede the done event: A, then one of B and D, then C
C4_ThreeVisits ==
    CycleScenario /\ gen.pc = "done" =>
        LET path == gen.last.payload
            BD == { v \in G.nodes : Adjacent(G, start, v) }
        IN  /\ Len(path) = 3
            /\ path[1] = start
            /\ path[2] \in BD
            /\ path[3] = target
            /\ Len(VisitedOrder) = 3
            /\ VisitedOrder[1] = start
            /\ VisitedOrder[2] \in BD
            /\ VisitedOrder[3] = target

\* C4 as amended: the path is A, one neighbor of A, C, of cost 2, and four
\* visits precede the done event: A, then B and D, then C
C4_FourVisits ==
    CycleScenario /\ gen.pc = "done" =>
        LET path == gen.last.payload
            BD == { v \in G.nodes : Adjacent(G, start, v) }
        IN  /\ Len(path) = 3
            /\ path[1] = start
            /\ path[2] \in BD
            /\ path[3] = target
            /\ PathWeight(script, G, path) = 2
            /\ Len(VisitedOrder) = 4
            /\ VisitedOrder[1] = start
            /\ { VisitedOrder[2], VisitedOrder[3] } = BD
            /\ VisitedOrder[4] = target
            /\ EventsOf("done") = { Len(events) }

C4_Witness == CycleScenario /\ gen.pc = "done"

----------------------------------------------------------------------------
(* Reference definitions for the optimizer *)

\* the number of selected emergencies and their indices in the matrix
NumSites == Len(emergency_nodes)

Sites == 1 .. NumSites

\* the loop over the masks has ended
Finished == mask = Pow2(NumSites)

RECURSIVE AllOrders(_)
\* every visiting order of a set of indices
AllOrders(S) ==
    IF S = {} THEN { << >> }
    ELSE UNION { { << x >> \o p : p \in AllOrders(S \ { x }) } : x \in S }

IsOrderOf(p, S) == p \in AllOrders(S)

RECURSIVE SumBetween(_, _, _)
\* the legs p[i] -> p[i+1], .., p[Len(p)-1] -> p[Len(p)]
SumBetween(dm, p, i) ==
    IF i >= Len(p) THEN 0 ELSE dm[p[i]][p[i + 1]] + SumBetween(dm, p, i + 1)

\* base -> first, the legs between the sites, last -> base
RoundTrip(dm, p) ==
    IF Len(p) = 0 THEN 0
    ELSE dm[0][p[1]] + SumBetween(dm, p, 1) + dm[p[Len(p)]][0]

MinRoundTrip(dm, S) == SetMin({ RoundTrip(dm, p) : p \in AllOrders(S) })

\* the minimum round trip of every set of sites
MinRoundTrips(dm) == [ S \in SUBSET Sites |-> MinRoundTrip(dm, S) ]

\* the sites bit i-1 of the mask gives the first ambulance
MaskSites(m) == { e \in Sites : (m \div (2 ^ (e - 1))) % 2 = 1 }

\* the cost of giving S to one ambulance and the other sites to the other
SplitCost(trips, S) == trips[S] + trips[Sites \ S]

MinTotal(dm) ==
    LET trips == MinRoundTrips(dm)
    IN  SetMin({ SplitCost(trips, S) : S \in SUBSET Sites })

\* p comes no later than q in lexicographic order
LexLE(p, q) ==
    \/ p = q
    \/ \E i \in DOMAIN p :
          /\ p[i] < q[i]
          /\ \A j \in 1 .. i - 1 : p[j] = q[j]

\* the first order of S, lexicographically, of minimum round trip
FirstBestOrder(dm, S) ==
    LET least == MinRoundTrip(dm, S)
        bests == { p \in AllOrders(S) : RoundTrip(dm, p) = least }
    IN  CHOOSE p \in bests : \A q \in bests : LexLE(p, q)

\* the scenario O-P1 = 3, O-P2 = 5, P1-P2 = 2
DispatchScenario ==
    /\ NumSites = 2
    /\ distance_matrix[0][1] = 3
    /\ distance_matrix[0][2] = 5
    /\ distance_matrix[1][2] = 2

----------------------------------------------------------------------------
(* Claims about the optimizer *)

\* C5: the total cost the optimizer settles on is the minimum over every
\* split of the sites and every order of each part, and it is the cost of
\* the routes it returns; in the scenario it is 10, one ambulance taking both
C5_MinimumTotal ==
    Finished =>
        /\ best.best_cost = MinTotal(distance_matrix)
        /\ best.best_cost = RoundTrip(distance_matrix, best.best_routes[1])
                            + RoundTrip(distance_matrix, best.best_routes[2])
        /\ Range(best.best_routes[1]) \cap Range(best.best_routes[2]) = {}
        /\ Range(best.best_routes[1]) \cup Range(best.best_routes[2]) = Sites
        /\ DispatchScenario =>
              /\ best.best_cost = 10
              /\ { Len(best.best_partition[1]), Len(best.best_partition[2]) } = { 0, 2 }

C5_Witness == Finished /\ DispatchScenario /\ best.best_cost = 10

\* C6: for every non-empty subset, find_best_route_order returns an order of
\* the subset and the minimum round-trip cost over all orders of the subset,
\* which is the cost of that order; so do the routes the optimizer holds
C6_BestOrder ==
    /\ Finished =>
          \A S \in (SUBSET Sites) \ { {} } :
              LET r == find_best_route_order(distance_matrix, Ascending(S))
              IN  /\ IsOrderOf(r.order, S)
                  /\ r.cost = RoundTrip(distance_matrix, r.order)
                  /\ r.cost = MinRoundTrip(distance_matrix, S)
    /\ mask > 0 =>
          \A k \in { 1, 2 } :
              RoundTrip(distance_matrix, best.best_routes[k])
                = MinRoundTrip(distance_matrix, Range(best.best_partition[k]))

\* all the sites with one ambulance, visited in another order than given
C6_Witness ==
    /\ mask > 0
    /\ Len(best.best_routes[2]) = MaxSites
    /\ best.best_routes[2] /= best.best_partition[2]
    /\ RoundTrip(distance_matrix, best.best_routes[2])
         < RoundTrip(distance_matrix, best.best_partition[2])

NoRepeats(s) == \A i, j \in DOMAIN s : i /= j => s[i] /= s[j]

IsSplit(s1, s2) ==
    /\ NoRepeats(s1)
    /\ NoRepeats(s2)
    /\ Range(s1) \cap Range(s2) = {}
    /\ Range(s1) \cup Range(s2) = Sites

\* C7: in every pass, and in the partition returned, the two subsets are
\* disjoint and together hold every site once; each route order is an order
\* of its own subset
C7_Partition ==
    mask > 0 =>
        /\ LET s1 == Subset1(NumSites, mask - 1)
               s2 == Subset2(NumSites, mask - 1)
           IN  /\ IsSplit(s1, s2)
               /\ IsOrderOf(find_best_route_order(distance_matrix, s1).order, Range(s1))
               /\ IsOrderOf(find_best_route_order(distance_matrix, s2).order, Range(s2))
        /\ IsSplit(best.best_partition[1], best.best_partition[2])
        /\ \A k \in { 1, 2 } :
              IsOrderOf(best.best_routes[k], Range(best.best_partition[k]))

C7_Witness ==
    /\ Finished
    /\ best.best_partition[1] /= << >>
    /\ Len(best.best_partition[2]) >= 2

\* the cost of the split of each pass made so far
PassCosts ==
    LET trips == MinRoundTrips(distance_matrix)
    IN  [ m \in 0 .. mask - 1 |-> SplitCost(trips, MaskSites(m)) ]

\* the first of the passes made so far of minimum cost
FirstBestMask ==
    LET costs == PassCosts
        least == SetMin({ costs[m] : m \in DOMAIN costs })
    IN  SetMin({ m \in DOMAIN costs : costs[m] = least })

\* C8: among the splits of equal minimum cost the one of the smallest mask
\* is kept, and among the orders of equal minimum cost the first in the
\* order of itertools.permutations; a later candidate of equal cost never
\* replaces the best so far
C8_FirstMinimum ==
    mask > 0 =>
        LET S1 == MaskSites(FirstBestMask)
        IN  /\ best.best_partition = << Ascending(S1), Ascending(Sites \ S1) >>
            /\ best.best_routes = << FirstBestOrder(distance_matrix, S1),
                                     FirstBestOrder(distance_matrix, Sites \ S1) >>

\* a later mask and a later order tie with the ones kept
C8_Witness ==
    /\ Finished
    /\ \E m \in 0 .. mask - 1 :
          /\ m > FirstBestMask
          /\ MaskSites(m) /= Sites \ MaskSites(FirstBestMask)
          /\ PassCosts[m] = best.best_cost
    /\ \E k \in { 1, 2 } :
          \E q \in AllOrders(Range(best.best_partition[k])) :
              /\ q /= best.best_routes[k]
              /\ RoundTrip(distance_matrix, q) = RoundTrip(distance_matrix, best.best_routes[k])

\* C9: with no site the optimizer ends with cost 0, both subsets and both
\* orders empty; an empty subset has the empty order and cost 0
C9_NoSites ==
    /\ find_best_route_order(distance_matrix, << >>) = [ order |-> << >>, cost |-> 0 ]
    /\ NumSites = 0 /\ Finished =>
          best = [ best_cost      |-> 0,
                   best_partition |-> << << >>, << >> >>,
                   best_routes    |-> << << >>, << >> >> ]
    /\ mask > 0 =>
          \A k \in { 1, 2 } :
              best.best_partition[k] = << >> =>
                  /\ best.best_routes[k] = << >>
                  /\ best.best_cost = RoundTrip(distance_matrix, best.best_routes[3 - k])

C9_Witness == NumSites = 0 /\ Finished /\ best.best_cost = 0

\* C10: with one site, one ambulance gets the site, at the cost of going
\* there and back, and the other the empty subset at cost 0
C10_OneSite ==
    NumSites = 1 /\ Finished =>
        /\ best.best_cost = distance_matrix[0][1] + distance_matrix[1][0]
        /\ { best.best_partition[1], best.best_partition[2] } = { << >>, << 1 >> }
        /\ best.best_routes = best.best_partition
        /\ \A k \in { 1, 2 } :
              best.best_partition[k] = << >> =>
                  find_best_route_order(distance_matrix, best.best_partition[k]).cost = 0

C10_Witness == NumSites = 1 /\ Finished /\ best.best_cost > 0

----------------------------------------------------------------------------
(* Claims about repeated and concurrent searches, and about the graph *)

IsPrefix(a, b) == Len(a) <= Len(b) /\ \A i \in DOMAIN a : a[i] = b[i]

RECURSIVE EventsFrom(_, _, _, _, _)
\* the events a generator yields from frame f on, when it is run to its end
EventsFrom(sc, g, s, t, f) ==
    LET nf == GenNext(sc, g, s, t, f)
    IN  IF nf.last.ev \in Outcomes THEN << >>
        ELSE << nf.last >> \o EventsFrom(sc, g, s, t, nf)

\* the whole event sequence of a call that is run alone
RunAlone(sc, g, s, t) == EventsFrom(sc, g, s, t, NewGenerator(g, s))

C12_OriginIsTarget ==
    start = target =>
        LET whole == << Event("visit", << start >>), Event("done", << start >>) >>
        IN  /\ IsPrefix(events, whole)
            /\ gen.pc = "done" => events = whole
            /\ ~ Live(gen) => events = whole /\ gen.pc = "end"
            /\ gen.pc \in { "start", "visit", "done", "end" }

\* a run from a node to itself has ended, and the node has roads to relax
C12_Witness ==
    /\ start = target
    /\ gen.pc = "end"
    /\ \E v \in G.nodes : Adjacent(G, start, v)

\* C19: two generators over the same graph, resumed in any interleaving,
\* each yield the events of the same call run alone
C19_AsAlone ==
    /\ IsPrefix(events, RunAlone(script, G, start, target))
    /\ IsPrefix(events2, RunAlone(script, G, start2, target2))
    /\ ~ Live(gen) => events = RunAlone(script, G, start, target)
    /\ ~ Live(gen2) => events2 = RunAlone(script, G, start2, target2)

\* two different calls, both suspended in the middle of their search
C19_Witness ==
    /\ start2 /= start
    /\ gen.pc = "relax"
    /\ gen2.pc = "relax"
    /\ Len(events) >= 3
    /\ Len(events2) >= 3
    /\ gen.seen /= gen2.seen

\* C20: no step of the generator changes the graph: its nodes, its adjacency
\* and its edge data stay what they were before the first event
C20_GraphUnchanged == [][G' = G]_vars

\* the consumer is in the middle of a search, after visits and relaxations
C20_Witness ==
    /\ gen.pc = "relax"
    /\ Len(events) >= 4
    /\ \E p \in DOMAIN G.data : Len(G.data[p]) = 2

----------------------------------------------------------------------------
(* Claims about the distance table and the routes *)

\* dispatch ran last and went past its early return: the matrices, the
\* partition and the routes are those of the selected emergencies
Fresh == last_call = "dispatch" /\ NumSites >= 1

\* C13: after compute_distance_matrix every entry between two different
\* points that are connected is the shortest-path cost between them, a pair
\* of adjacent nodes weighing the least length of its parallel edges (1 for
\* an edge without a length)
C13_ShortestCosts ==
    Fresh =>
        \A i, j \in 0 .. NumSites :
            LET points == Points(emergency_nodes)
            IN  (i /= j /\ Reachable(G, points[i], points[j])) =>
                    distance_matrix[i][j] = ShortestDist("upgrade", G, points[i], points[j])

\* C14: after compute_distance_matrix the distance matrix is symmetric, its
\* diagonal is zero and the diagonal of path_matrix holds the one-node paths
C14_Symmetric ==
    Fresh =>
        \A i, j \in 0 .. NumSites :
            /\ distance_matrix[i][j] = distance_matrix[j][i]
            /\ distance_matrix[i][i] = 0
            /\ path_matrix[i][i] = << Points(emergency_nodes)[i] >>

\* every visiting order of every subset of the selected emergencies
SiteOrders == UNION { AllOrders(S) : S \in SUBSET Sites }

\* the number of edges of a path; an empty segment has none
Edges(path) == IF Len(path) = 0 THEN 0 ELSE Len(path) - 1

RECURSIVE SumEdges(_)
SumEdges(segments) ==
    IF segments = << >> THEN 0 ELSE Edges(Head(segments)) + SumEdges(Tail(segments))

RECURSIVE Joined(_, _)
\* the route so far followed by every segment without its first node
Joined(route, segments) ==
    IF segments = << >> THEN route
    ELSE Joined(route \o (IF Head(segments) = << >> THEN << >> ELSE Tail(Head(segments))),
                Tail(segments))

\* segment k is a shortest path from the last node of the route built from
\* the segments before it to the k-th site of the order, or empty when that
\* site cannot be reached
Chained(run, route_order) ==
    /\ Len(run.segments) = Len(route_order)
    /\ \A k \in DOMAIN route_order :
          LET before == Joined(<< base_node >>, SubSeq(run.segments, 1, k - 1))
              site == Points(emergency_nodes)[route_order[k]]
          IN  IF Reachable(G, before[Len(before)], site)
              THEN /\ run.segments[k] \in PathsVia(G, << before[Len(before)] >>, site)
                   /\ nx_weight(G, run.segments[k]) =
                          ShortestDist("upgrade", G, before[Len(before)], site)
              ELSE run.segments[k] = << >>

\* the routes of the state are routes build_full_path returns for the orders
\* the optimizer has chosen
RoutesBuilt ==
    Fresh => \A k \in 1 .. 2 :
                 route_paths[k] = RouteOf(nx_paths, emergency_nodes, best.best_routes[k])

\* C15 as stated: the edge count of a route is the sum of the edge counts of
\* its segments minus (segment count - 1); stated for the routes all of
\* whose segments exist
C15_EdgesLessBoundaries ==
    \A route_order \in SiteOrders \ { << >> } :
        LET run == build_full_path_run(nx_paths, emergency_nodes, route_order)
        IN  (\A k \in DOMAIN run.segments : run.segments[k] /= << >>) =>
                Edges(run.full_path) = SumEdges(run.segments) - (Len(run.segments) - 1)

\* C15 as amended: the edge count of a route is the sum of the edge counts of
\* its segments; each segment is a shortest path from the current last node
\* of the route to the next site (empty when the site cannot be reached) and
\* adds all its nodes but its first
C15_EdgesSum ==
    /\ RoutesBuilt
    /\ \A route_order \in SiteOrders :
          LET run == build_full_path_run(nx_paths, emergency_nodes, route_order)
          IN  /\ Chained(run, route_order)
              /\ run.full_path = Joined(<< base_node >>, run.segments)
              /\ Edges(run.full_path) = SumEdges(run.segments)

\* an ambulance has been given a route through two emergencies that has more
\* nodes than edges in each segment
C15_Witness ==
    /\ Fresh
    /\ \E k \in 1 .. 2 :
          /\ Len(best.best_routes[k]) = 2
          /\ Len(route_paths[k]) = 3

\* C16: every two consecutive nodes of a route of build_full_path are joined
\* by an edge of the graph (so they are different nodes)
C16_RouteAlongEdges ==
    /\ RoutesBuilt
    /\ \A route_order \in SiteOrders :
          LET route == build_full_path(nx_paths, emergency_nodes, route_order)
          IN  \A i \in 1 .. Len(route) - 1 : Adjacent(G, route[i], route[i + 1])

\* an ambulance has been given a route that passes a node on its way to an
\* emergency that is not next to the base
C16_Witness ==
    /\ Fresh
    /\ \E k \in 1 .. 2 :
          /\ Len(route_paths[k]) >= 3
          /\ ~ Adjacent(G, base_node, route_paths[k][Len(route_paths[k])])

\* the optimizer has assigned the ambulance no emergency
Idle(k) == best.best_routes[k] = << >>

\* every route of build_full_path starts at the base, and the route of the
\* empty order is [base_node]
RoutesFromBase ==
    /\ build_full_path(nx_paths, emergency_nodes, << >>) = << base_node >>
    /\ \A route_order \in SiteOrders :
          LET route == build_full_path(nx_paths, emergency_nodes, route_order)
          IN  Len(route) >= 1 /\ route[1] = base_node

\* C17: every route of build_full_path starts at the base, the empty order
\* gives exactly [base_node], and a dispatch gives an ambulance that the
\* optimizer left idle the route [base_node]
C17_IdleRoute ==
    /\ RoutesFromBase
    /\ RoutesBuilt
    /\ Fresh => \A k \in 1 .. 2 :
                   /\ Idle(k) => route_paths[k] = << base_node >>
                   /\ route_paths[k][1] = base_node

\* one ambulance stays idle at the base while the other drives
C17_Witness ==
    /\ Fresh
    /\ Idle(1)
    /\ route_paths[1] = << base_node >>
    /\ Len(route_paths[2]) > 1

----------------------------------------------------------------------------
(* Claims about invalid input *)

\* C18: a search whose origin or destination is no node of the graph fails
\* with InvalidInput before any search work: it yields no event (no visit,
\* no relax), settles nothing, and the only way it ends is the InvalidInput
\* error
C18_FailFast ==
    (start \notin G.nodes \/ target \notin G.nodes) =>
        /\ events = << >>
        /\ gen.seen = {}
        /\ DOMAIN gen.prev = {}
        /\ ~ Live(gen) => gen.last.ev = "InvalidInput"

----------------------------------------------------------------------------
(* Claims about the steps of one search *)

\* C21: a consumer that keeps pulling reaches the end of the sequence after
\* finitely many events: the generator yields done or no_path and then
\* returns; the heap never holds more than one entry for the origin and one
\* for each end of each road
C21_Terminates ==
    /\ <>(/\ gen.pc = "end"
          /\ events # << >>
          /\ events[Len(events)].ev \in { "done", "no_path" })
    /\ [](Cardinality(gen.pq) <=
            1 + 2 * Cardinality({ p \in DOMAIN G.data : G.data[p] # << >> }))

\* a search over roads of length zero has ended after six events or more
C21_Witness ==
    /\ gen.pc = "end"
    /\ Len(events) >= 6
    /\ \E p \in DOMAIN G.data : G.data[p] = << << 0 >> >>

(* The animation of animation.py and upgrade.py: a click starts a search   *)
(* from base_node, and every tick of the timer applies the next events of  *)
(* the search to the map, then moves the ambulance along the path found.   *)

\* a faulty variant: `for _ in range(7)`
TickEvents_Seven == 6 + 1

\* `for _ in range(6)`
TickEvents == 6

AMBULANCE_MOVE_FRAMES == 12

\* the globals anim_step and start_dijkstra_to write
Display ==
    [ node_color_map |-> node_color_map,
      dijkstra_gen |-> dijkstra_gen,
      path_nodes |-> path_nodes,
      ambulance_index |-> ambulance_index,
      ambulance_moving |-> ambulance_moving,
      ambulance_annot |-> ambulance_annot,
      frames_since_path_found |-> frames_since_path_found,
      visited_order |-> visited_order,
      applied |-> applied,
      pulled |-> pulled ]

RECURSIVE PaintPath(_, _)
\* `for n in path_nodes: node_color_map[n] = PATH_COLOR`
PaintPath(colors, path) ==
    IF path = << >> THEN colors
    ELSE PaintPath([ colors EXCEPT ![Head(path)] = "PATH_COLOR" ], Tail(path))

\* the branch of anim_step for the event e that next() returned
Apply(sc, st, e) ==
    LET seen == [ st EXCEPT !.applied = Append(st.applied, e) ]
    IN  CASE e.ev = "visit" ->
               [ seen EXCEPT !.node_color_map[e.payload[1]] = "VISIT_COLOR",
                             !.visited_order = IF sc = "upgrade"
                                               THEN Append(st.visited_order, e.payload[1])
                                               ELSE st.visited_order ]
          [] e.ev = "relax" ->
               IF st.node_color_map[e.payload[1]] = "DEFAULT_NODE_COLOR"
               THEN [ seen EXCEPT !.node_color_map[e.payload[1]] = "#FFC87C" ]
               ELSE seen
          [] e.ev = "done" ->
               IF sc = "animation"
               THEN [ seen EXCEPT !.path_nodes = e.payload,
                                  !.node_color_map = PaintPath(st.node_color_map, e.payload),
                                  !.dijkstra_gen = None,
                                  !.ambulance_index = 0,
                                  !.frames_since_path_found = 0,
                                  !.ambulance_moving = TRUE,
                                  !.ambulance_annot = e.payload[1] ]
               ELSE [ seen EXCEPT !.node_color_map = PaintPath(st.node_color_map, e.payload),
                                  !.dijkstra_gen = None ]
          [] e.ev = "no_path" ->
               IF sc = "animation"
               THEN [ seen EXCEPT !.dijkstra_gen = None, !.ambulance_moving = FALSE ]
               ELSE [ seen EXCEPT !.dijkstra_gen = None ]

\* the `break` of the done and no_path branches
Breaks(e) == e.ev \in { "done", "no_path" }

RECURSIVE Consume(_, _, _, _, _)
\* the passes k, k+1, .. of `for _ in range(6)` inside the try block;
\* StopIteration sets dijkstra_gen to None, any other error leaves anim_step
Consume(sc, g, t, st, k) ==
    IF k > TickEvents THEN st
    ELSE LET nf == GenNext(sc, g, base_node, t, st.dijkstra_gen)
             called == [ st EXCEPT !.dijkstra_gen = nf, !.pulled = st.pulled + 1 ]
         IN  IF nf.last.ev = "StopIteration" THEN [ called EXCEPT !.dijkstra_gen = None ]
             ELSE IF nf.last.ev = "NetworkXError" THEN called
             ELSE LET next == Apply(sc, called, nf.last)
                  IN  IF Breaks(nf.last) THEN next ELSE Consume(sc, g, t, next, k + 1)

\* a faulty variant: the ambulance stops one node before the end of the path
MoveAmbulance_StopsShort(st) ==
    IF st.frames_since_path_found + 1 >= AMBULANCE_MOVE_FRAMES
    THEN IF st.ambulance_index + 1 >= Len(st.path_nodes) - 1
         THEN [ st EXCEPT !.frames_since_path_found = 0,
                          !.ambulance_index = st.ambulance_index + 1,
                          !.ambulance_moving = FALSE ]
         ELSE [ st EXCEPT !.frames_since_path_found = 0,
                          !.ambulance_index = st.ambulance_index + 1,
                          !.ambulance_annot = st.path_nodes[st.ambulance_index + 2] ]
    ELSE [ st EXCEPT !.frames_since_path_found = st.frames_since_path_found + 1 ]

\* the `elif ambulance_moving` branch of animation.py; path_nodes[k] of the
\* script is st.path_nodes[k + 1]
MoveAmbulance(st) ==
    IF st.frames_since_path_found + 1 >= AMBULANCE_MOVE_FRAMES
    THEN IF st.ambulance_index + 1 >= Len(st.path_nodes)
         THEN [ st EXCEPT !.frames_since_path_found = 0,
                          !.ambulance_index = st.ambulance_index + 1,
                          !.ambulance_moving = FALSE ]
         ELSE [ st EXCEPT !.frames_since_path_found = 0,
                          !.ambulance_index = st.ambulance_index + 1,
                          !.ambulance_annot = st.path_nodes[st.ambulance_index + 2] ]
    ELSE [ st EXCEPT !.frames_since_path_found = st.frames_since_path_found + 1 ]

\* anim_step of the script sc
anim_step(sc, g, t, st) ==
    IF st.dijkstra_gen # None THEN Consume(sc, g, t, st, 1)
    ELSE IF sc = "animation" /\ st.ambulance_moving THEN MoveAmbulance(st)
    ELSE st

\* a faulty variant: a search that is running is kept
NewSearch_KeepsRunning(g, old) == IF old = None THEN NewGenerator(g, base_node) ELSE old

\* dijkstra_gen = dijkstra_generator(G, base_node, target_node)
NewSearch(g, old) == NewGenerator(g, base_node)

\* the colours start_dijkstra_to gives the nodes
ResetColors(nodes, t) ==
    Tabulated([ n \in nodes |-> IF n = t THEN "TARGET_COLOR"
                                ELSE IF n = base_node THEN "BASE_COLOR"
                                ELSE "DEFAULT_NODE_COLOR" ], nodes)

\* start_dijkstra_to(target_node)
start_dijkstra_to(target_node) ==
    /\ current_target_node' = target_node
    /\ node_color_map' = ResetColors(G.nodes, target_node)
    /\ dijkstra_gen' = NewSearch(G, dijkstra_gen)
    /\ path_nodes' = << >>
    /\ ambulance_index' = 0
    /\ ambulance_moving' = FALSE
    /\ ambulance_annot' = 0
    /\ frames_since_path_found' = 0
    /\ visited_order' = << >>
    /\ applied' = << >>
    /\ pulled' = 0
    /\ abandoned' = IF dijkstra_gen = None THEN << >> ELSE applied

AnimInit ==
    /\ G \in PairGraphs \cup CycleGraphs
    /\ start = base_node
    /\ target = base_node
    /\ script \in Scripts
    /\ gen = NewGenerator(G, start)
    /\ events = << >>
    /\ settled = << >>
    /\ start2 = start
    /\ target2 = target
    /\ gen2 = NewGenerator(G, start2)
    /\ events2 = << >>
    /\ emergency_nodes = << >>
    /\ distance_matrix = NoMatrix
    /\ best = NoBest
    /\ mask = 0
    /\ path_matrix = NoPaths
    /\ route_paths = NoRoutes
    /\ last_call = "none"
    /\ nx_paths = NoPaths
    /\ node_color_map = StartColors(G.nodes)
    /\ IdleTicks
    /\ IdleAnimation

\* on_click of animation.py and upgrade.py: the click is nearest to node nearest
AnimClick(nearest) ==
    /\ last_call' = "on_click"
    /\ last_click' = nearest
    /\ IF nearest = base_node
       THEN UNCHANGED << node_color_map, dijkstra_gen, current_target_node, path_nodes,
                         ambulance_index, ambulance_moving, ambulance_annot,
                         frames_since_path_found,
                         visited_order, applied, pulled, abandoned >>
       ELSE start_dijkstra_to(nearest)
    /\ UNCHANGED << search_vars, pair_vars, dispatch_vars >>
    /\ UNCHANGED << path_matrix, route_paths, nx_paths, tick_vars >>

\* one tick of FuncAnimation
AnimStep ==
    /\ LET st == anim_step(script, G, current_target_node, Display)
       IN  /\ node_color_map' = st.node_color_map
           /\ dijkstra_gen' = st.dijkstra_gen
           /\ path_nodes' = st.path_nodes
           /\ ambulance_index' = st.ambulance_index
           /\ ambulance_moving' = st.ambulance_moving
           /\ ambulance_annot' = st.ambulance_annot
           /\ frames_since_path_found' = st.frames_since_path_found
           /\ visited_order' = st.visited_order
           /\ applied' = st.applied
           /\ pulled' = st.pulled
    /\ last_call' = "anim_step"
    /\ UNCHANGED << current_target_node, last_click, abandoned >>
    /\ UNCHANGED << search_vars, pair_vars, dispatch_vars >>
    /\ UNCHANGED << path_matrix, route_paths, nx_paths, tick_vars >>

AnimNext == (\E nearest \in G.nodes : AnimClick(nearest)) \/ AnimStep

AnimSpec == AnimInit /\ [][AnimNext]_vars

(* The drive of the ambulance of animation.py on the unit cycle: clicks    *)
(* come until a path has been found, the timer keeps ticking.              *)

DriveInit ==
    /\ AnimInit
    /\ G \in CycleGraphs
    /\ script = "animation"

\* a click before any path has been found
ClickBeforePath(nearest) == path_nodes = << >> /\ AnimClick(nearest)

\* a tick of the timer while a search is running
SearchTick == dijkstra_gen # None /\ AnimStep

\* a tick of the timer while no search is running
AmbulanceTick == dijkstra_gen = None /\ AnimStep

DriveNext ==
    \/ \E nearest \in G.nodes : ClickBeforePath(nearest)
    \/ SearchTick
    \/ AmbulanceTick

\* the timer of FuncAnimation keeps calling anim_step
DriveSpec == DriveInit /\ [][DriveNext]_vars /\ WF_vars(AmbulanceTick)

----------------------------------------------------------------------------
(* Claims about the clicks of the dispatcher *)

\* the colours on_click leaves on the map: the base keeps its own, the
\* selected emergencies are targets, every other node is as at the start
ColoursOf(sites) ==
    [ n \in G.nodes |-> IF n = base_node THEN "BASE_COLOR"
                        ELSE IF n \in Range(sites) THEN "TARGET_COLOR"
                        ELSE "DEFAULT_NODE_COLOR" ]

\* what a click on node n does to the selection when on_click accepts it
Accepted(n) ==
    /\ n # base_node
    /\ n \notin Range(emergency_nodes)
    /\ Len(emergency_nodes) < MAX_EMERGENCIES
    /\ emergency_nodes' = Append(emergency_nodes, n)
    /\ node_color_map' = [ node_color_map EXCEPT ![n] = "TARGET_COLOR" ]

\* C22: after any clicks emergency_nodes holds at most MAX_EMERGENCIES nodes,
\* no node twice and never base_node, and a click either is accepted or leaves
\* emergency_nodes and node_color_map as they were
C22_Selection ==
    /\ [](/\ Len(emergency_nodes) <= MAX_EMERGENCIES
          /\ \A i, j \in DOMAIN emergency_nodes :
                emergency_nodes[i] = emergency_nodes[j] => i = j
          /\ base_node \notin Range(emergency_nodes)
          /\ node_color_map = ColoursOf(emergency_nodes))
    /\ [][ \/ \E n \in G.nodes : Accepted(n)
           \/ UNCHANGED << emergency_nodes, node_color_map >> ]_vars

\* six emergencies are selected after a click and a seventh node is left
C22_Witness ==
    /\ Len(emergency_nodes) = MAX_EMERGENCIES
    /\ last_call = "on_click"
    /\ \E n \in G.nodes : n # base_node /\ n \notin Range(emergency_nodes)

(* Claims about the frontier *)

\* the events of kind ev about node v
EventsAbout(ev, v) == { i \in EventsOf(ev) : events[i].payload = << v >> }

\* the entries a call of next() has taken off the heap
Popped == gen.pq \ gen'.pq

\* C23: a popped entry whose node is already settled yields no event and
\* changes neither dist, prev nor seen: a call that pops such entries yields
\* one event, for the first unsettled node or for the empty heap, and that
\* is all it changes; so no node has two visit events
C23_StalePops ==
    /\ [](\A v \in DOMAIN gen.dist : Cardinality(EventsAbout("visit", v)) <= 1)
    /\ [][ gen'.pc \in { "visit", "no_path" } =>
             /\ gen'.dist = gen.dist
             /\ gen'.prev = gen.prev
             /\ Len(events') = Len(events) + 1
             /\ \A e \in Popped :
                   \/ e[2] \in gen.seen
                   \/ gen'.pc = "visit" /\ e = << gen'.d, gen'.u >>
             /\ gen'.seen = gen.seen \cup { e[2] : e \in Popped }
             /\ gen'.pc = "visit" => gen'.u \notin gen.seen ]_vars

\* the heap has been emptied of two entries for one node, which was visited once
C23_Witness ==
    /\ gen.pc = "no_path"
    /\ \E v \in G.nodes : /\ Cardinality(EventsAbout("relax", v)) >= 2
                           /\ Cardinality(EventsAbout("visit", v)) = 1

(* Claims about the relaxations *)

\* the neighbors a call of next() has still to look at when it resumes
\* inside the expansion of gen.u
Pending ==
    IF gen.pc = "relax" THEN Range(gen.nbrs)
    ELSE IF gen.pc = "visit" /\ ~AtTarget(gen, target) /\ gen.u \in G.nodes
    THEN Range(neighbors(G, gen.u))
    ELSE {}

\* the neighbors the call has looked at
Examined == IF gen'.pc = "relax" THEN Pending \ Range(gen'.nbrs) ELSE Pending

\* d + w(u, v) for the node being expanded
Candidate(v) == gen.d + EdgeWeight(script, G, gen.u, v)

\* C24: while u, popped with distance d, is expanded, relax(v) is yielded
\* exactly when d + w(u,v) < dist[v], with dist[v] = d + w(u,v), prev[v] = u
\* and (d + w(u,v), v) pushed in that step; a neighbor with
\* d + w(u,v) >= dist[v] yields nothing and leaves dist, prev and the heap alone
C24_RelaxExactly ==
    [][ LET relaxed == IF gen'.pc = "relax" THEN { gen'.last.payload[1] } ELSE {}
        IN  /\ relaxed \subseteq Examined
            /\ \A v \in Examined :
                  IF v \in relaxed
                  THEN /\ Candidate(v) < gen.dist[v]
                       /\ gen'.dist[v] = Candidate(v)
                       /\ v \in DOMAIN gen'.prev /\ gen'.prev[v] = gen.u
                       /\ gen'.pq = gen.pq \cup { << Candidate(v), v >> }
                  ELSE /\ Candidate(v) >= gen.dist[v]
                       /\ gen'.dist[v] = gen.dist[v]
                       /\ (v \in DOMAIN gen'.prev) = (v \in DOMAIN gen.prev)
                       /\ v \in DOMAIN gen.prev => gen'.prev[v] = gen.prev[v]
            /\ relaxed = {} /\ gen'.pc \notin { "end", "raised" } =>
                  gen'.pq \subseteq gen.pq /\ gen'.dist = gen.dist /\ gen'.prev = gen.prev
            /\ Len(events') = Len(events) + (IF gen'.pc \in { "end", "raised" } THEN 0 ELSE 1)
      ]_vars

\* node u was expanded after the only relaxation of its neighbor x, which a
\* road from u reaches at the distance x already had
C24_Witness ==
    \E u \in gen.seen : \E x \in Range(neighbors(G, u)) :
        /\ Cardinality(EventsAbout("relax", x)) = 1
        /\ \E i \in EventsAbout("relax", x), j \in EventsAbout("visit", u), k \in EventsOf("visit") :
              i < j /\ j < k
        /\ settled[u].dist + EdgeWeight(script, G, u, x) = gen.dist[x]
        /\ gen.prev[x] # u

(* Claims about the end of a search *)

Terminal == { "done", "no_path" }

\* C25: a done event comes right after visit(target), no relax event comes
\* after visit(target), and no event comes after a done or a no_path event
C25_TerminalLast ==
    \A i \in DOMAIN events :
        /\ events[i].ev = "done" => i > 1 /\ events[i - 1] = Event("visit", << target >>)
        /\ events[i] = Event("visit", << target >>) =>
              \A j \in DOMAIN events : j > i => events[j].ev = "done" /\ j = i + 1
        /\ events[i].ev \in Terminal => i = Len(events)

\* the search found its target while a neighbor of the target was unsettled,
\* and the consumer has called next() once more
C25_Witness ==
    /\ gen.pc = "end"
    /\ Len(events) >= 3
    /\ events[Len(events)].ev = "done"
    /\ \E v \in Range(neighbors(G, target)) : v \notin gen.seen

\* C28: when the path is reconstructed the target is the origin or has an
\* entry in prev; the walk back stops only at the origin, so the path runs
\* from the origin to the target, each node the predecessor of the next
C28_WholePath ==
    gen.pc = "done" =>
        LET path == gen.last.payload
        IN  /\ target = start \/ target \in DOMAIN gen.prev
            /\ start \notin DOMAIN gen.prev
            /\ path[1] = start
            /\ path[Len(path)] = target
            /\ \A i \in 1 .. (Len(path) - 1) :
                  /\ path[i + 1] \in DOMAIN gen.prev
                  /\ gen.prev[path[i + 1]] = path[i]
                  /\ path[i + 1] # start

\* a path of three nodes or more was reconstructed
C28_Witness == gen.pc = "done" /\ target # start /\ Len(gen.last.payload) >= 3

(* Claims about dist and prev *)

RECURSIVE Climbs(_, _)
\* following prev from v reaches the origin within n steps
Climbs(v, n) ==
    \/ v = start
    \/ n > 0 /\ v \in DOMAIN gen.prev /\ Climbs(gen.prev[v], n - 1)

\* C29: prev has an entry for v exactly when v is not the origin and dist[v]
\* is finite; for every v in prev, prev[v] is settled and
\* dist[v] = dist[prev[v]] + w(prev[v], v); following prev from v reaches the
\* origin, also over roads of length zero
C29_PrevTree ==
    /\ \A v \in DOMAIN gen.dist :
          (v \in DOMAIN gen.prev) <=> (v # start /\ gen.dist[v] < Infinity)
    /\ start \notin DOMAIN gen.prev
    /\ \A v \in DOMAIN gen.prev :
          /\ gen.prev[v] \in gen.seen
          /\ gen.dist[v] = gen.dist[gen.prev[v]] + EdgeWeight(script, G, gen.prev[v], v)
          /\ Climbs(v, Cardinality(G.nodes))

\* a node two roads of length zero away from the origin has its predecessor
C29_Witness ==
    \E v \in DOMAIN gen.prev :
        /\ gen.prev[v] # start
        /\ gen.dist[v] = 0
        /\ EdgeWeight(script, G, start, gen.prev[v]) = 0

\* C30: nodes are settled at distances that never decrease along the events,
\* and the first event is visit(origin), settled at distance 0
C30_SettledInOrder ==
    /\ \A k, l \in DOMAIN VisitedOrder :
          k < l => settled[VisitedOrder[k]].dist <= settled[VisitedOrder[l]].dist
    /\ events # << >> =>
          /\ events[1] = Event("visit", << start >>)
          /\ settled[start].dist = 0

\* three nodes were settled, each farther from the origin than the one before
C30_Witness ==
    /\ Len(VisitedOrder) >= 3
    /\ settled[VisitedOrder[2]].dist > 0
    /\ settled[VisitedOrder[3]].dist > settled[VisitedOrder[2]].dist

(* Claims about the animation *)

\* the events of the search the last accepted click started
ActiveRun == RunAlone(script, G, base_node, current_target_node)

\* the nodes of the visit events among es
RECURSIVE VisitsOf(_)
VisitsOf(es) ==
    IF es = << >> THEN << >>
    ELSE (IF Head(es).ev = "visit" THEN << Head(es).payload[1] >> ELSE << >>)
         \o VisitsOf(Tail(es))

\* C26: over the ticks anim_step applies the events of the active search in
\* the order the generator yields them, each once and none skipped, at most
\* 6 a tick; when done or no_path is applied dijkstra_gen is None and next()
\* is not called on that search again
C26_InOrderOnce ==
    /\ [](current_target_node # 0 =>
            /\ IsPrefix(applied, ActiveRun)
            /\ pulled = Len(applied)
            /\ (dijkstra_gen = None) <=> (applied = ActiveRun)
            /\ dijkstra_gen # None =>
                  dijkstra_gen.last = IF applied = << >> THEN Event("none", << >>)
                                      ELSE applied[Len(applied)]
            /\ script = "upgrade" => visited_order = VisitsOf(applied))
    /\ [][ /\ pulled' <= pulled + 6
           /\ last_call' = "anim_step" =>
                 IsPrefix(applied, applied') /\ Len(applied') <= Len(applied) + 6
           /\ dijkstra_gen = None /\ last_call' = "anim_step" =>
                 pulled' = pulled /\ applied' = applied ]_vars

\* a search of more than six events was applied to its end over two ticks
C26_Witness ==
    /\ current_target_node # 0
    /\ dijkstra_gen = None
    /\ Len(applied) > 6
    /\ applied[Len(applied)].ev = "done"

RECURSIVE Painted(_, _)
\* the colours of the map after the events es, starting from colors
Painted(colors, es) ==
    IF es = << >> THEN colors
    ELSE LET e == Head(es)
             next == CASE e.ev = "visit" -> [ colors EXCEPT ![e.payload[1]] = "VISIT_COLOR" ]
                       [] e.ev = "relax" ->
                            IF colors[e.payload[1]] = "DEFAULT_NODE_COLOR"
                            THEN [ colors EXCEPT ![e.payload[1]] = "#FFC87C" ]
                            ELSE colors
                       [] e.ev = "done" ->
                            [ n \in DOMAIN colors |->
                                IF n \in Range(e.payload) THEN "PATH_COLOR" ELSE colors[n] ]
                       [] OTHER -> colors
         IN  Painted(next, Tail(es))

\* C27: a click on a new target replaces the generator and resets the map
\* (every node default, base and target in their colours, path_nodes empty,
\* ambulance_index 0, ambulance_moving false); from then on the map shows the
\* events of the new search only, and no event or path of the abandoned one
C27_NewSearchOnly ==
    /\ [](current_target_node # 0 =>
            /\ IsPrefix(applied, ActiveRun)
            /\ node_color_map =
                  Painted(ResetColors(G.nodes, current_target_node), applied)
            /\ path_nodes =
                  IF script = "animation" /\ applied # << >>
                                          /\ applied[Len(applied)].ev = "done"
                  THEN ActiveRun[Len(ActiveRun)].payload ELSE << >>)
    /\ [][ last_call' = "on_click" /\ last_click' # base_node =>
             /\ current_target_node' = last_click'
             /\ dijkstra_gen' = NewGenerator(G, base_node)
             /\ \A n \in G.nodes :
                   node_color_map'[n] = IF n = last_click' THEN "TARGET_COLOR"
                                        ELSE IF n = base_node THEN "BASE_COLOR"
                                        ELSE "DEFAULT_NODE_COLOR"
             /\ path_nodes' = << >>
             /\ ambulance_index' = 0
             /\ ambulance_moving' = FALSE
             /\ applied' = << >> ]_vars

\* a click replaced a running search that had coloured the map, and the
\* search for the new target has found its path
C27_Witness ==
    /\ abandoned # << >>
    /\ ~ IsPrefix(abandoned, ActiveRun)
    /\ dijkstra_gen = None
    /\ applied # << >>
    /\ applied[Len(applied)].ev = "done"

(* Claims about the copies of the generator *)

\* C31: the copies of dijkstra_generator give every road the same weight and
\* yield the same events for the same graph, origin and destination: what
\* one copy has yielded so far begins the run of every copy
C31_CopiesAgree ==
    /\ \A u, v \in G.nodes :
          EdgeWeight("animation", G, u, v) = EdgeWeight("upgrade", G, u, v)
    /\ \A sc \in Scripts : IsPrefix(events, RunAlone(sc, G, start, target))

(* Claims about the ambulances of the dispatcher *)

\* C32: dispatch on one emergency or more ends without an exception, leaves
\* one non-empty list of positions for each ambulance and
\* route_step_indices = [0, 0]; on every later tick each index stays inside
\* its list of positions, and no tick raises
C32_DispatchCompletes ==
    /\ (last_call = "dispatch" /\ NumSites >= 1) =>
          /\ raised = "none"
          /\ Len(route_positions) = 2
          /\ \A i \in 1 .. 2 : route_positions[i] # << >>
          /\ route_step_indices = << 0, 0 >>
    /\ last_call = "anim_step" =>
          /\ raised = "none"
          /\ \A i \in 1 .. 2 :
                route_positions[i] # << >> =>
                    route_step_indices[i] < Len(route_positions[i])

RECURSIVE Threads(_, _)
\* the nodes of stops come in route, in their order
Threads(stops, route) ==
    \/ stops = << >>
    \/ /\ route # << >>
       /\ IF Head(route) = Head(stops) THEN Threads(Tail(stops), Tail(route))
          ELSE Threads(stops, Tail(route))

\* the emergencies of a route order, as nodes
StopsOf(route_order) ==
    [ i \in DOMAIN route_order |-> Points(emergency_nodes)[route_order[i]] ]

\* C33: the route build_full_path returns for an order the optimizer has
\* chosen holds every emergency of the order, in that order, and ends at the
\* last of them, also when an emergency cannot be reached
C33_RouteHoldsSites ==
    Fresh =>
        \A k \in 1 .. 2 :
            LET route_order == best.best_routes[k]
                route == build_full_path(nx_paths, emergency_nodes, route_order)
            IN  route_order # << >> =>
                    /\ Threads(StopsOf(route_order), route)
                    /\ route[Len(route)] = StopsOf(route_order)[Len(route_order)]

(* Claims about the ambulance of animation.py *)

\* the node of the path the ambulance is at: path_nodes[ambulance_index] of
\* the script, and the last node once the index has run off the path
AmbulanceNode ==
    path_nodes[IF ambulance_index < Len(path_nodes) THEN ambulance_index + 1
               ELSE Len(path_nodes)]

\* C34: once the path is found and no click follows, the ambulance starts at
\* path_nodes[0], moves on by one node of the path every AMBULANCE_MOVE_FRAMES
\* ticks, comes to stand at the last node, after which ambulance_moving is
\* false for good; path_nodes is never read at an index beyond its end
C34_AmbulanceDrives ==
    /\ [](path_nodes # << >> =>
            /\ ambulance_index \in 0 .. Len(path_nodes)
            /\ ambulance_moving <=> ambulance_index < Len(path_nodes)
            /\ ambulance_annot = AmbulanceNode
            /\ frames_since_path_found \in 0 .. 11)
    /\ [][ /\ (path_nodes = << >> /\ path_nodes' # << >>) =>
                 /\ ambulance_index' = 0
                 /\ ambulance_annot' = path_nodes'[1]
                 /\ frames_since_path_found' = 0
           /\ (path_nodes # << >> /\ ambulance_moving) =>
                 /\ frames_since_path_found' = (frames_since_path_found + 1) % 12
                 /\ ambulance_index' =
                       IF frames_since_path_found = 11 THEN ambulance_index + 1
                       ELSE ambulance_index
           /\ (path_nodes # << >> /\ ~ ambulance_moving) =>
                 /\ ~ ambulance_moving'
                 /\ ambulance_annot' = ambulance_annot ]_vars
    /\ (path_nodes # << >>) ~>
          (/\ path_nodes # << >>
           /\ ambulance_annot = path_nodes[Len(path_nodes)]
           /\ ~ ambulance_moving)

\* the ambulance stands at the end of a path of three nodes
C34_Witness ==
    /\ Len(path_nodes) = 3
    /\ ambulance_index = 3
    /\ ~ ambulance_moving
    /\ ambulance_annot = current_target_node
====
